---- MODULE Spec2Model ----
(***************************************************************************)
(* tick.py: for every device, page through the vendor's report-logs        *)
(* endpoint (_get_logs / get_logs), reshape the events into one typed      *)
(* series per status code, chart them, and dump the raw events to          *)
(* bleh.json (main).                                                       *)
(*                                                                         *)
(* The vendor is the environment.  Its answers are fixed when the run      *)
(* starts: vendor[i] is the sequence of responses the log endpoint gives   *)
(* to the 1st, 2nd, ... request for device i.  The program is sequential,  *)
(* so pc is the position of main.                                          *)
(***************************************************************************)
EXTENDS Integers, Sequences, FiniteSets, TLC

VARIABLES
    devices,        \* get_devices().result: sequence of [id, name, status]
    vendor,         \* vendor[i]: the log endpoint's responses for device i, in order
    clock,          \* wall clock read by date.today() / datetime.now()
    pc,             \* position of main
    devIdx,         \* position of `for device in devices.result`
    codes,          \* _get_logs argument
    start_time,     \* _get_logs argument
    end_time,       \* _get_logs argument
    last_row_key,   \* _get_logs argument of the current recursion level
    yielded,        \* events the generator has yielded so far in this call
    requests,       \* every openapi.get issued, in order: [device_id, params]
    responses,      \* every response received, in order
    res,            \* main's res = get_logs(...)
    data,           \* main's data: device.name -> res
    y,              \* main's y: status code -> typed values
    index,          \* main's index (never reset between devices)
    charts,         \* every px.line(...) built and shown, in order
    written,        \* number of times bleh.json was written
    file,           \* contents of bleh.json
    err             \* the uncaught exception, once pc = "error"

vars == <<devices, vendor, clock, pc, devIdx, codes, start_time, end_time,
          last_row_key, yielded, requests, responses, res, data, y, index,
          charts, written, file, err>>

(***************************************************************************)
(* Bounds of the model.                                                    *)
(***************************************************************************)
\* devices of a multi-device run
NumDevices == 3
\* pages of a paginated fetch
MaxPages == 3
\* events of the single page of a series-building run
MaxEvents == 2
\* clock units per calendar day
DayLen == 2

(***************************************************************************)
(* Python values.                                                          *)
(***************************************************************************)
None == "<None>"
EmptyDict == [k \in {} |-> <<>>]
PyBool(b) == <<"bool", b>>
PyInt(n) == <<"int", n>>

\* d[k] = v on a dict
DictSet(d, k, v) == (k :> v) @@ d

\* datetime and date objects
DateTime(t) == [kind |-> "datetime", t |-> t]
Date(day) == [kind |-> "date", day |-> day]
WEEK == 7
Today == Date(clock \div DayLen)
Now == DateTime(clock)
MinusWeeks(d, n) == Date(d.day - n * WEEK)

RECURSIVE to_api(_)
to_api(t) ==
    IF t.kind = "datetime" THEN t.t * 1000
    ELSE to_api(DateTime(t.day * DayLen))

\* ",".join(codes)
RECURSIVE Join(_)
Join(cs) ==
    IF cs = <<>> THEN ""
    ELSE IF Len(cs) = 1 THEN cs[1]
    ELSE cs[1] \o "," \o Join(Tail(cs))

\* Event.event_time after pydantic parsing: an aware UTC datetime
UTC == 0
PERTH == 8
ParseTime(ms) == [ms |-> ms, utcoffset |-> UTC]
astimezone(dt, tz) == [ms |-> dt.ms, utcoffset |-> tz]
isoformat(dt) == <<dt.ms + dt.utcoffset * 3600000, dt.utcoffset>>

\* Event.parse_obj of one element of result.list
ParseEvent(w) ==
    [code |-> w.code, event_time |-> ParseTime(w.event_time), value |-> w.value]
ParseList(ws) == [i \in 1..Len(ws) |-> ParseEvent(ws[i])]

\* json.dump's default= hook on an Event
EventDict(e) ==
    [code |-> e.code, event_time |-> isoformat(e.event_time), value |-> e.value]
Dump(d) == [n \in DOMAIN d |-> [i \in 1..Len(d[n]) |-> EventDict(d[n][i])]]

\* int(v) on the strings the vendor sends
IntLiterals == {"23", "25"}
int(v) == CASE v = "23" -> 23 [] v = "25" -> 25

(***************************************************************************)
(* The vendor's answers.                                                   *)
(***************************************************************************)
OkPage(list, more, key) ==
    [success |-> TRUE, msg |-> "",
     result |-> [list |-> list, has_more |-> more, last_row_key |-> key]]
Failure(msg) ==
    [success |-> FALSE, msg |-> msg,
     result |-> [list |-> <<>>, has_more |-> FALSE, last_row_key |-> None]]

Msgs == {"token invalid", "permission deny"}
Tokens == {None, "", "abc", "def"}
Times == {1, 2}
Values == {"true", "false", "23", "25", "True"}
Wire(c, t, v) == [code |-> c, event_time |-> t, value |-> v]

\* the answer to the k-th request for device i (the last answer repeats)
Reply(i, k) == vendor[i][IF k <= Len(vendor[i]) THEN k ELSE Len(vendor[i])]

Ids == <<"d1", "d2", "d3", "d4">>
Device(i, name, status) == [id |-> Ids[i], name |-> name, status |-> status]

\* A run over several devices, each with few events.
RunScripts ==
    {<<OkPage(<<Wire("temp", 2, "25")>>, FALSE, None)>>,
     <<Failure("token invalid")>>,
     <<OkPage(<<Wire("temp", 1, "23")>>, TRUE, "abc"),
       OkPage(<<Wire("temp", 1, "25")>>, FALSE, None)>>,
     <<OkPage(<<Wire("temp", 1, "23")>>, TRUE, "abc"),
       Failure("permission deny")>>}
RunChoices ==
    {[name |-> n, status |-> <<>>, script |-> <<OkPage(<<>>, FALSE, None)>>] :
        n \in {"A", "B"}}
    \cup {[name |-> n, status |-> <<"temp">>, script |-> s] :
             n \in {"A", "B"}, s \in RunScripts}
RunConfigured ==
    \E c \in [1..NumDevices -> RunChoices] :
        /\ devices = [i \in 1..NumDevices |-> Device(i, c[i].name, c[i].status)]
        /\ vendor = [i \in 1..NumDevices |-> c[i].script]

\* One device whose fetch takes up to MaxPages requests: every page but the
\* last says has_more, the last is a final page or a failure.
PageLists ==
    {<<>>, <<Wire("temp", 1, "23")>>, <<Wire("temp", 2, "25"), Wire("temp", 1, "23")>>}
PageConfigured ==
    \E n \in 1..MaxPages :
        \E lists \in [1..n -> PageLists], keys \in [1..(n - 1) -> Tokens],
           last \in {"ok"} \cup Msgs :
            /\ devices = <<Device(1, "A", <<"temp">>)>>
            /\ vendor = <<[k \in 1..n |->
                             IF k < n THEN OkPage(lists[k], TRUE, keys[k])
                             ELSE IF last = "ok" THEN OkPage(lists[k], FALSE, None)
                             ELSE Failure(last)]>>

\* One device with one page of up to MaxEvents events of any shape.
SeriesEvents ==
    {Wire(c, t, v) : c \in {"temp", "open"}, t \in Times, v \in Values}
    \cup {Wire(c, 1, "true") : c \in {"switch_1", "countdown_1", "switch"}}
SeriesStatuses ==
    {<<"switch_1", "temp", "open">>, <<"open", "countdown_1", "switch", "temp">>}
SeriesConfigured ==
    \E st \in SeriesStatuses, n \in 0..MaxEvents :
        \E list \in [1..n -> SeriesEvents] :
            /\ devices = <<Device(1, "A", st)>>
            /\ vendor = <<<<OkPage(list, FALSE, None)>>>>

NoErr == [type |-> "", msg |-> ""]

Init ==
    /\ RunConfigured \/ PageConfigured \/ SeriesConfigured
    /\ clock = 0
    /\ pc = "loop"
    /\ devIdx = 1
    /\ codes = <<>>
    /\ start_time = Today
    /\ end_time = Now
    /\ last_row_key = None
    /\ yielded = <<>>
    /\ requests = <<>>
    /\ responses = <<>>
    /\ res = <<>>
    /\ data = EmptyDict
    /\ y = EmptyDict
    /\ index = <<>>
    /\ charts = <<>>
    /\ written = 0
    /\ file = EmptyDict
    /\ err = NoErr

(***************************************************************************)
(* _get_logs / get_logs.                                                   *)
(***************************************************************************)
device == devices[devIdx]

\* `if last_row_key:`
Truthy(key) == key \notin {None, ""}

\* the params dict of one request
Params(cs, st, et, key) ==
    LET base == [codes |-> Join(cs), start_time |-> to_api(st), end_time |-> to_api(et)]
    IN IF Truthy(key) THEN DictSet(base, "last_row_key", key) ELSE base

\* a fetch that never looks at "success"
SucceededAlways(r) == TRUE

\* `assert res["success"], res["msg"]`
Succeeded(r) == r.success

\* a fetch that keeps only the page at hand
YieldPageOnly(sofar, list) == ParseList(list)

\* `yield from res.result.list`, collected by list(...)
Yield(sofar, list) == sofar \o ParseList(list)

\* a fetch that recurses whatever has_more says
MoreAlways(result) == TRUE

\* `if res.result.has_more:`
MoreToFetch(result) == result.has_more

\* a recursion that hands on the cursor it was called with
NextKeyStale(result) == last_row_key

\* the last_row_key handed to the recursive call
NextKey(result) == result.last_row_key

RequestsFor(id) == SelectSeq(requests, LAMBDA r : r.device_id = id)

\* a loop that fetches every device
HasStatusAlways(dev) == TRUE

\* main, line 121: `if not device.status: continue`
HasStatus(dev) == dev.status # <<>>

Skip ==
    /\ pc = "loop"
    /\ devIdx <= Len(devices)
    /\ ~HasStatus(device)
    /\ devIdx' = devIdx + 1
    /\ UNCHANGED <<devices, vendor, clock, pc, codes, start_time, end_time,
                   last_row_key, yielded, requests, responses, res, data, y,
                   index, charts, written, file, err>>

\* main, lines 124-130: the call get_logs(openapi, device.id, codes, start, end)
CallGetLogs ==
    /\ pc = "loop"
    /\ devIdx <= Len(devices)
    /\ HasStatus(device)
    /\ codes' = device.status
    /\ start_time' = MinusWeeks(Today, 1)
    /\ end_time' = Now
    /\ last_row_key' = None
    /\ yielded' = <<>>
    /\ pc' = "request"
    /\ UNCHANGED <<devices, vendor, clock, devIdx, requests, responses, res,
                   data, y, index, charts, written, file, err>>

\* _get_logs, lines 85-95: build params and issue the request
Get ==
    /\ pc = "request"
    /\ Len(RequestsFor(device.id)) <= MaxPages
    /\ requests' = Append(requests,
                          [device_id |-> device.id,
                           params |-> Params(codes, start_time, end_time, last_row_key)])
    /\ pc' = "await"
    /\ UNCHANGED <<devices, vendor, clock, devIdx, codes, start_time, end_time,
                   last_row_key, yielded, responses, res, data, y, index,
                   charts, written, file, err>>

received == Reply(devIdx, Len(RequestsFor(device.id)))

\* _get_logs, line 96: the assertion fails and nothing catches it
AssertFail ==
    /\ pc = "await"
    /\ ~Succeeded(received)
    /\ responses' = Append(responses, received)
    /\ clock' = clock + 1
    /\ err' = [type |-> "AssertionError", msg |-> received.msg]
    /\ pc' = "error"
    /\ UNCHANGED <<devices, vendor, devIdx, codes, start_time, end_time,
                   last_row_key, yielded, requests, res, data, y, index,
                   charts, written, file>>

\* _get_logs, lines 97-107: yield the page and recurse with the returned cursor
YieldMore ==
    /\ pc = "await"
    /\ Succeeded(received)
    /\ MoreToFetch(received.result)
    /\ responses' = Append(responses, received)
    /\ clock' = clock + 1
    /\ yielded' = Yield(yielded, received.result.list)
    /\ last_row_key' = NextKey(received.result)
    /\ pc' = "request"
    /\ UNCHANGED <<devices, vendor, devIdx, codes, start_time, end_time,
                   requests, res, data, y, index, charts, written, file, err>>

\* _get_logs, lines 97-99, get_logs, line 111, and main, line 132:
\* the last page is yielded, list(...) returns, data[device.name] = res
ReturnLogs ==
    /\ pc = "await"
    /\ Succeeded(received)
    /\ ~MoreToFetch(received.result)
    /\ responses' = Append(responses, received)
    /\ clock' = clock + 1
    /\ yielded' = Yield(yielded, received.result.list)
    /\ res' = yielded'
    /\ data' = DictSet(data, device.name, res')
    /\ pc' = "series"
    /\ UNCHANGED <<devices, vendor, devIdx, codes, start_time, end_time,
                   last_row_key, requests, y, index, charts, written, file, err>>

(***************************************************************************)
(* main, lines 134-149: one typed series per status code.                  *)
(***************************************************************************)
SkipCodes == {"switch_1", "countdown_1", "switch"}

\* line 136
Skipped(code) == code \in SkipCodes

\* line 138
Points(events, code) == SelectSeq(events, LAMBDA point : point.code = code)

\* a loop that keeps codes without events
NoPointsNever(points) == FALSE

\* line 139: `if not points: continue`
NoPoints(points) == points = <<>>

\* a test with all() in place of any()
AllBool(values) == \A i \in 1..Len(values) : values[i] = "true" \/ values[i] = "false"

\* line 143
AnyBool(values) == \E i \in 1..Len(values) : values[i] = "true" \/ values[i] = "false"

\* a coercion decided value by value
AsBoolsElementwise(values) ==
    [i \in 1..Len(values) |->
        IF values[i] \in {"true", "false"} THEN PyBool(values[i] = "true")
        ELSE IF values[i] \in IntLiterals THEN PyInt(int(values[i]))
        ELSE PyInt(0)]

\* line 144
AsBools(values) == [i \in 1..Len(values) |-> PyBool(values[i] = "true")]

\* line 146, when no int(v) raises
AsInts(values) == [i \in 1..Len(values) |-> PyInt(int(values[i]))]

\* line 146 raises ValueError
IntRaises(values) == \E i \in 1..Len(values) : values[i] \notin IntLiterals

\* line 149
TimeIndex(points) == [i \in 1..Len(points) |-> astimezone(points[i].event_time, PERTH)]

\* the loop of lines 135-149 from status[k] on; st = [y, index, raised]
RECURSIVE SeriesLoop(_, _, _, _)
SeriesLoop(status, events, k, st) ==
    IF k > Len(status) THEN st
    ELSE LET code == status[k]
             points == Points(events, code)
             values == [i \in 1..Len(points) |-> points[i].value]
         IN IF Skipped(code) \/ NoPoints(points)
            THEN SeriesLoop(status, events, k + 1, st)
            ELSE IF AnyBool(values)
            THEN SeriesLoop(status, events, k + 1,
                            [st EXCEPT !.y = DictSet(st.y, code, AsBools(values)),
                                       !.index = TimeIndex(points)])
            ELSE IF IntRaises(values)
            THEN [st EXCEPT !.raised = TRUE]
            ELSE SeriesLoop(status, events, k + 1,
                            [st EXCEPT !.y = DictSet(st.y, code, AsInts(values)),
                                       !.index = TimeIndex(points)])

built == SeriesLoop(device.status, res, 1, [y |-> EmptyDict, index |-> index, raised |-> FALSE])

BuildSeries ==
    /\ pc = "series"
    /\ ~built.raised
    /\ y' = built.y
    /\ index' = built.index
    /\ pc' = "plot"
    /\ UNCHANGED <<devices, vendor, clock, devIdx, codes, start_time, end_time,
                   last_row_key, yielded, requests, responses, res, data,
                   charts, written, file, err>>

\* int(v) raises ValueError inside the loop; nothing catches it
BuildSeriesFail ==
    /\ pc = "series"
    /\ built.raised
    /\ y' = built.y
    /\ index' = built.index
    /\ err' = [type |-> "ValueError", msg |-> "invalid literal for int()"]
    /\ pc' = "error"
    /\ UNCHANGED <<devices, vendor, clock, devIdx, codes, start_time, end_time,
                   last_row_key, yielded, requests, responses, res, data,
                   charts, written, file>>

\* lines 151-158: `if y:` build the frame over `index` and show the chart
Show ==
    /\ pc = "plot"
    /\ y # EmptyDict
    /\ charts' = Append(charts, [title |-> device.name,
                                 frame |-> [columns |-> y, index |-> index],
                                 y |-> device.status])
    /\ devIdx' = devIdx + 1
    /\ pc' = "loop"
    /\ UNCHANGED <<devices, vendor, clock, codes, start_time, end_time,
                   last_row_key, yielded, requests, responses, res, data, y,
                   index, written, file, err>>

NoShow ==
    /\ pc = "plot"
    /\ y = EmptyDict
    /\ devIdx' = devIdx + 1
    /\ pc' = "loop"
    /\ UNCHANGED <<devices, vendor, clock, codes, start_time, end_time,
                   last_row_key, yielded, requests, responses, res, data, y,
                   index, charts, written, file, err>>

\* lines 160-166: after the loop, json.dump(data) to bleh.json
WriteFile ==
    /\ pc = "loop"
    /\ devIdx > Len(devices)
    /\ file' = Dump(data)
    /\ written' = written + 1
    /\ pc' = "done"
    /\ UNCHANGED <<devices, vendor, clock, devIdx, codes, start_time, end_time,
                   last_row_key, yielded, requests, responses, res, data, y,
                   index, charts, err>>

Next ==
    \/ Skip
    \/ CallGetLogs
    \/ Get
    \/ AssertFail
    \/ YieldMore
    \/ ReturnLogs
    \/ BuildSeries
    \/ BuildSeriesFail
    \/ Show
    \/ NoShow
    \/ WriteFile

Spec == Init /\ [][Next]_vars

(***************************************************************************)
(* What the vendor's answers determine, for stating the properties.        *)
(***************************************************************************)
DeviceIdx == DOMAIN devices
Range(f) == {f[k] : k \in DOMAIN f}
Max(S) == CHOOSE m \in S : \A n \in S : n <= m
Min(S) == CHOOSE m \in S : \A n \in S : m <= n

\* p1.list + ... + pk.list of a script, as Events
RECURSIVE Concatenation(_, _)
Concatenation(script, k) ==
    IF k = 0 THEN <<>>
    ELSE Concatenation(script, k - 1) \o ParseList(script[k].result.list)

AllSucceed(script) == \A k \in DOMAIN script : script[k].success
\* positions of the successful pages that say has_more = false
LastPages(script) ==
    {k \in DOMAIN script : script[k].success /\ ~script[k].result.has_more}
\* every event the vendor holds for device i
Fetched(i) == Concatenation(vendor[i], Len(vendor[i]))

\* device i's get_logs call has returned
Returned(i) ==
    /\ devices[i].status # <<>>
    /\ \/ i < devIdx
       \/ i = devIdx /\ pc \in {"series", "plot"}
       \/ i = devIdx /\ pc = "error" /\ err.type = "ValueError"
\* responses received so far for device i
Received(i) ==
    LET n == Len(RequestsFor(devices[i].id))
    IN IF i = devIdx /\ pc = "await" THEN n - 1 ELSE n

\* data after devices 1..k have been processed without a failed fetch
WithStatus(k) == {j \in DeviceIdx : j <= k /\ devices[j].status # <<>>}
ExpectedData(k) ==
    [n \in {devices[j].name : j \in WithStatus(k)} |->
        Fetched(Max({j \in WithStatus(k) : devices[j].name = n}))]

\* the raw values of the events of one code, in fetch order
ValuesOf(events, code) ==
    LET pts == SelectSeq(events, LAMBDA e : e.code = code)
    IN [i \in 1..Len(pts) |-> pts[i].value]
TimesOf(events, code) ==
    LET pts == SelectSeq(events, LAMBDA e : e.code = code)
    IN [i \in 1..Len(pts) |-> pts[i].event_time]
IsBoolString(v) == v \in {"true", "false"}
HasBoolString(vals) == \E i \in DOMAIN vals : IsBoolString(vals[i])
DenyList == {"switch_1", "countdown_1", "switch"}
\* the codes the Series Builder keeps for the current device
KeptCodes ==
    {c \in Range(device.status) : c \notin DenyList /\ ValuesOf(res, c) # <<>>}
\* a kept code on which int() raises
Unparseable(c) ==
    LET vals == ValuesOf(res, c)
    IN ~HasBoolString(vals) /\ \E i \in DOMAIN vals : vals[i] \notin IntLiterals

(***************************************************************************)
(* Log Fetcher.                                                            *)
(***************************************************************************)

\* C1: when every page of a device's fetch succeeds and only the last says
\* has_more = false, the list get_logs returns is p1.list + ... + pn.list:
\* every event once, in arrival order, within and across pages.
C1_Concatenation ==
    \A i \in DeviceIdx :
        (i = devIdx /\ pc \in {"series", "plot"} /\ AllSucceed(vendor[i])
            /\ LastPages(vendor[i]) = {Len(vendor[i])})
        => res = Fetched(i)

\* a fetch of three non-empty pages has returned
C1_Witness ==
    /\ pc = "series"
    /\ Len(vendor[devIdx]) = 3
    /\ \A k \in 1..3 : vendor[devIdx][k].result.list # <<>>
    /\ Len(res) >= 4

\* the cursor a request carries, None when it carries none
CursorOf(request) ==
    IF "last_row_key" \in DOMAIN request.params
    THEN request.params["last_row_key"] ELSE None

SameQuery(i) ==
    LET rq == RequestsFor(devices[i].id)
    IN \A k \in DOMAIN rq :
        /\ rq[k].params["codes"] = rq[1].params["codes"]
        /\ rq[k].params["start_time"] = rq[1].params["start_time"]
        /\ rq[k].params["end_time"] = rq[1].params["end_time"]

\* C2 as stated: the request after a has_more page carries exactly the token
\* that page returned, whatever the token (empty or absent included); the
\* first request carries no cursor; codes, start_time and end_time are the
\* same in every request of the fetch.
C2_ExactCursor ==
    \A i \in DeviceIdx :
        LET rq == RequestsFor(devices[i].id)
        IN /\ \A k \in DOMAIN rq :
                IF k = 1 THEN CursorOf(rq[k]) = None
                ELSE CursorOf(rq[k]) = vendor[i][k - 1].result.last_row_key
           /\ SameQuery(i)

\* C2 amended: a non-empty token is carried exactly; after an empty or absent
\* token the next request carries no cursor at all; the first request
\* carries none; codes, start_time and end_time are the same in every
\* request of the fetch.
C2_NonEmptyCursor ==
    \A i \in DeviceIdx :
        LET rq == RequestsFor(devices[i].id)
        IN /\ \A k \in DOMAIN rq :
                LET token == IF k = 1 THEN None
                             ELSE vendor[i][k - 1].result.last_row_key
                IN IF token \in {None, ""} THEN "last_row_key" \notin DOMAIN rq[k].params
                   ELSE /\ "last_row_key" \in DOMAIN rq[k].params
                        /\ rq[k].params["last_row_key"] = token
           /\ SameQuery(i)

\* three requests of one fetch: the second carries "abc", the third follows
\* a page whose token is empty
C2_Witness ==
    /\ pc = "await"
    /\ Len(RequestsFor(device.id)) = 3
    /\ vendor[devIdx][1].result.last_row_key = "abc"
    /\ vendor[devIdx][2].result.last_row_key = ""
    /\ clock \div DayLen > 0

\* C3: a fetch issues one request per page up to and including the first
\* successful page with has_more = false and none after it; once that page
\* has been received the fetch is over.
C3_OneRequestPerPage ==
    \A i \in DeviceIdx :
        LastPages(vendor[i]) # {} =>
            LET last == Min(LastPages(vendor[i]))
                n    == Len(RequestsFor(devices[i].id))
            IN /\ n <= last
               /\ Returned(i) => n = last
               /\ (i = devIdx /\ pc = "request") => Received(i) < last
               /\ (i = devIdx /\ Received(i) = last) => pc \notin {"request", "await"}

\* a fetch of several pages has returned
C3_Witness ==
    /\ pc = "series"
    /\ Len(vendor[devIdx]) = 3
    /\ Len(RequestsFor(device.id)) = 3

\* C4: after a response with success = false the run is in a fatal error
\* carrying the vendor's message; that request is the last one issued (not
\* re-issued, nothing for this or a later device), the failed device's
\* earlier pages are not in data, and the file is not written.
C4_FailureIsFatal ==
    \A k \in DOMAIN responses :
        ~responses[k].success =>
            /\ k = Len(responses)
            /\ pc = "error"
            /\ err = [type |-> "AssertionError", msg |-> responses[k].msg]
            /\ Len(requests) = Len(responses)
            /\ requests[Len(requests)].device_id = device.id
            /\ \A j \in DeviceIdx : j > devIdx => RequestsFor(devices[j].id) = <<>>
            /\ data = ExpectedData(devIdx - 1)
            /\ written = 0

\* the second page of the first device's fetch fails, after a page with an
\* event, and a later device has status codes
C4_Witness ==
    /\ pc = "error"
    /\ err.type = "AssertionError"
    /\ devIdx = 1
    /\ yielded # <<>>
    /\ Len(requests) = 2
    /\ \E j \in DeviceIdx : j > devIdx /\ devices[j].status # <<>>

\* C5: a device with no status codes gets no request and no entry in data;
\* requests follow the device list's order, and the devices around it are
\* still fetched.
C5_EmptyStatusSkipped ==
    /\ \A i \in DeviceIdx :
          devices[i].status = <<>> => RequestsFor(devices[i].id) = <<>>
    /\ \A n \in DOMAIN data :
          \E j \in DeviceIdx : devices[j].name = n /\ devices[j].status # <<>>
    /\ \A a, b \in DOMAIN requests :
          a < b => \E i, j \in DeviceIdx :
                      /\ i <= j
                      /\ devices[i].id = requests[a].device_id
                      /\ devices[j].id = requests[b].device_id
    /\ \A j \in DeviceIdx :
          (devices[j].status # <<>> /\ (j < devIdx \/ pc = "done")) =>
              /\ RequestsFor(devices[j].id) # <<>>
              /\ devices[j].name \in DOMAIN data

\* the run is over: the second device had no status codes, its name is
\* nobody else's, and the first and third devices were fetched
C5_Witness ==
    /\ pc = "done"
    /\ Len(devices) = 3
    /\ devices[2].status = <<>>
    /\ devices[2].name \notin {devices[1].name, devices[3].name}
    /\ devices[2].name \notin DOMAIN data
    /\ RequestsFor(devices[1].id) # <<>>
    /\ RequestsFor(devices[3].id) # <<>>

(***************************************************************************)
(* Series Builder.                                                         *)
(***************************************************************************)

\* C6: once a device's series are built, the keys of y are exactly the
\* device's status codes that are not deny-listed and have at least one
\* event; no deny-listed key, no empty series.
C6_SeriesKeys ==
    /\ pc = "plot" => DOMAIN y = KeptCodes
    /\ \A c \in DOMAIN y : c \notin DenyList /\ y[c] # <<>>

\* a device with a deny-listed code that has an event, a code without
\* events, and a code that is kept
C6_Witness ==
    /\ pc = "plot"
    /\ \E c \in Range(device.status) : c \in DenyList /\ ValuesOf(res, c) # <<>>
    /\ \E c \in Range(device.status) : c \notin DenyList /\ ValuesOf(res, c) = <<>>
    /\ y # EmptyDict

\* C7: a kept code with some value equal to "true" or "false" gets one
\* boolean per event, true exactly where the value is "true"; any other
\* kept code gets int(value) per event, and the run dies with an uncaught
\* ValueError exactly when such a code has a value int() rejects.  Length
\* and order are those of the code's events.
C7_Coercion ==
    /\ pc = "plot" =>
          /\ \A c \in KeptCodes : ~Unparseable(c)
          /\ \A c \in DOMAIN y :
                LET vals == ValuesOf(res, c)
                IN /\ Len(y[c]) = Len(vals)
                   /\ \A i \in DOMAIN vals :
                         IF HasBoolString(vals)
                         THEN y[c][i] = <<"bool", vals[i] = "true">>
                         ELSE y[c][i] = <<"int", int(vals[i])>>
    /\ (pc = "error" /\ err.type = "ValueError") =>
          \E c \in KeptCodes : Unparseable(c)

\* a boolean series <<true, false>> has been built
C7_Witness ==
    /\ pc = "plot"
    /\ \E c \in DOMAIN y :
          /\ ValuesOf(res, c) = <<"true", "false">>
          /\ y[c] = <<PyBool(TRUE), PyBool(FALSE)>>

\* an integer series <<25, 23>> has been built
C7_WitnessInt ==
    /\ pc = "plot"
    /\ \E c \in DOMAIN y :
          /\ ValuesOf(res, c) = <<"25", "23">>
          /\ y[c] = <<PyInt(25), PyInt(23)>>

Homogeneous ==
    \A c \in DOMAIN y : \A i, j \in DOMAIN y[c] : y[c][i][1] = y[c][j][1]
\* the code's raw values mix boolean strings with other values
MixedRaw(c) ==
    LET vals == ValuesOf(res, c)
    IN /\ \E i \in DOMAIN vals : IsBoolString(vals[i])
       /\ \E i \in DOMAIN vals : ~IsBoolString(vals[i])

\* C8 as stated: every stored series is all booleans or all integers, and a
\* code whose raw values mix boolean strings with other values is a data
\* error, so no series is stored for it.
C8_MixedIsError ==
    /\ Homogeneous
    /\ pc = "plot" => \A c \in DOMAIN y : ~MixedRaw(c)

\* C8 amended: every stored series is all booleans or all integers; a code
\* whose raw values mix boolean strings with other values is no error: its
\* series is stored as booleans, every value other than "true" being false.
C8_MixedIsBoolean ==
    /\ Homogeneous
    /\ pc = "plot" =>
          \A c \in KeptCodes :
              MixedRaw(c) =>
                  /\ c \in DOMAIN y
                  /\ \A i \in DOMAIN y[c] :
                        y[c][i] = <<"bool", ValuesOf(res, c)[i] = "true">>

\* a series built from a boolean string and an integer literal
C8_Witness ==
    /\ pc = "plot"
    /\ \E c \in DOMAIN y :
          /\ ValuesOf(res, c) = <<"true", "23">>
          /\ y[c] = <<PyBool(TRUE), PyBool(FALSE)>>

\* C9: when y is not empty, the index the frame is built over is, for every
\* code of y, the Perth-converted event times of that code's events.
C9_IndexPerCode ==
    (pc = "plot" /\ y # EmptyDict) =>
        \A c \in DOMAIN y :
            LET times == TimesOf(res, c)
            IN /\ Len(index) = Len(y[c])
               /\ \A i \in DOMAIN times : index[i] = astimezone(times[i], PERTH)

(***************************************************************************)
(* Output file.                                                            *)
(***************************************************************************)

\* C10: the file is written at most once and only after the last device;
\* when the run completes, it has been written once and maps the name of
\* every device with a status code to all the events fetched for that
\* device, unmodified and in fetch order.
C10_FileHasEveryDevice ==
    /\ written <= 1
    /\ written = 1 => devIdx > Len(devices)
    /\ pc = "done" =>
          /\ written = 1
          /\ \A i \in DeviceIdx :
                devices[i].status # <<>> =>
                    /\ devices[i].name \in DOMAIN file
                    /\ file[devices[i].name] =
                          [k \in 1..Len(Fetched(i)) |-> EventDict(Fetched(i)[k])]

====
